---- MODULE Spec2Model ----
(***************************************************************************)
(* A model of dyncf (src/src/main.rs): one run of the dynamic-DNS update.  *)
(*                                                                         *)
(* A Rust String is a sequence of symbols.  Where the code works on        *)
(* characters (the domain's dots, the trace text) a symbol is one          *)
(* character; an opaque provider identifier or a string literal that is    *)
(* only copied is a single symbol.  Option<T> is a sequence of length 0    *)
(* (None) or 1 (Some).  Every outbound HTTP exchange is one step of the    *)
(* run: the request is appended to `requests`, the answer the network      *)
(* gave is kept in `response`, and the Result of the call in `returned`.   *)
(***************************************************************************)
EXTENDS Naturals, Sequences, FiniteSets

VARIABLES
    config,     \* Config {auth_email, auth_key, domain}
    pc,         \* position of main: zone, records, trace, v4, v6, done, failed
    zone_id,    \* main's zone_id (Option while not yet bound)
    ipv4_id,    \* main's ipv4_id : Option<String>
    ipv6_id,    \* main's ipv6_id : Option<String>
    ipv4,       \* main's ipv4 : Option<String>
    ipv6,       \* main's ipv6 : Option<String>
    requests,   \* every outbound request of the run, in order
    returned,   \* for each request, whether the call that made it returned Ok or Err
    response,   \* what the network answered to the last request
    listed,     \* history: content of the record each kept id was taken from
    output,     \* the lines printed on the console, in order
    error       \* the Err main returned, if any

vars == <<config, pc, zone_id, ipv4_id, ipv6_id, ipv4, ipv6, requests, returned,
          response, listed, output, error>>

(***************************************************************************)
(* Bounds of the model.                                                    *)
(***************************************************************************)
MaxDomainLen == 5
MaxZones == 2
MaxRecords == 2
MaxListLen == 3
MaxErrors == 1
MaxRunLines == 2
MaxTracePieces == 5

(***************************************************************************)
(* Option and string helpers.                                              *)
(***************************************************************************)
None == <<>>
Some(x) == <<x>>
IsSome(o) == Len(o) = 1
Unwrap(o) == o[1]

\* the sequences of up to n elements of S
SeqsUpTo(S, n) == UNION {[1..k -> S] : k \in 0..n}

RECURSIVE Flatten(_)
Flatten(ss) == IF ss = <<>> THEN <<>> ELSE Head(ss) \o Flatten(Tail(ss))

Rev(s) == [i \in 1..Len(s) |-> s[Len(s) + 1 - i]]

Take(s, n) == SubSeq(s, 1, IF Len(s) < n THEN Len(s) ELSE n)

\* str::split(sep) for a one-character separator: always at least one piece
RECURSIVE SplitFrom(_, _, _)
SplitFrom(s, sep, cur) ==
    IF s = <<>> THEN <<cur>>
    ELSE IF Head(s) = sep THEN <<cur>> \o SplitFrom(Tail(s), sep, <<>>)
    ELSE SplitFrom(Tail(s), sep, Append(cur, Head(s)))

Split(s, sep) == SplitFrom(s, sep, <<>>)

\* [&str]::join(sep)
RECURSIVE Join(_, _)
Join(pieces, sep) ==
    IF pieces = <<>> THEN <<>>
    ELSE IF Len(pieces) = 1 THEN pieces[1]
    ELSE pieces[1] \o <<sep>> \o Join(Tail(pieces), sep)

\* the line feed
LF == "\n"

\* str::lines() on a text without carriage returns: the pieces between the
\* newlines, a final newline ending the last line rather than opening a new one
Lines(text) ==
    LET pieces == Split(text, LF)
    IN  IF pieces[Len(pieces)] = <<>> THEN SubSeq(pieces, 1, Len(pieces) - 1) ELSE pieces

StartsWith(s, p) == Len(s) >= Len(p) /\ SubSeq(s, 1, Len(p)) = p

\* str::trim_start_matches(p): removes the prefix p as long as it matches
RECURSIVE TrimStartMatches(_, _)
TrimStartMatches(s, p) ==
    IF StartsWith(s, p) THEN TrimStartMatches(SubSeq(s, Len(p) + 1, Len(s)), p) ELSE s

Contains(s, c) == \E i \in 1..Len(s) : s[i] = c

(***************************************************************************)
(* The data of the program.                                                *)
(***************************************************************************)
\* CloudflareError {code, message}
ErrorValues ==
    {[code |-> 9106, message |-> "Invalid content"],
     [code |-> 1004, message |-> "DNS Validation Error"]}

\* Zone {id, name}
ZoneIds == {<<"z1">>, <<"z2">>}
Zones == [id : ZoneIds, name : {<<"example.com">>}]

\* DnsRecord {id, type, name, content}
RecordIds == {<<"r1">>, <<"r2">>}
RecordTypes == {"A", "AAAA", "CNAME"}
Contents == {<<"1">>, <<":">>}
DnsRecords(domain) ==
    [id : RecordIds, record_type : RecordTypes, name : {domain}, content : Contents]

\* DnsUpdate built with the address as name and the domain as content
DnsUpdateSwapped(record_type, name, content, proxied) ==
    [record_type |-> record_type, name |-> content, content |-> name, proxied |-> proxied]

\* DnsUpdate {type, name, content, proxied}
DnsUpdate(record_type, name, content, proxied) ==
    [record_type |-> record_type, name |-> name, content |-> content, proxied |-> proxied]

(***************************************************************************)
(* What the network can answer.  A call either fails in transport (call()  *)
(* or send_json() is Err: no connection, or an HTTP error status), fails   *)
(* to decode (into_json() or into_string() is Err), or yields a body: a    *)
(* CloudflareResponse<T> {success, errors, result} or the trace's text.    *)
(***************************************************************************)
FailResp(kind) ==
    [kind |-> kind, success |-> FALSE, errors |-> <<>>, result |-> <<>>, text |-> <<>>]
JsonResp(success, errors, result) ==
    [kind |-> "json", success |-> success, errors |-> errors, result |-> result,
     text |-> <<>>]
TextResp(text) ==
    [kind |-> "text", success |-> FALSE, errors |-> <<>>, result |-> <<>>, text |-> text]

NoResp == FailResp("none")
Failures == {FailResp("transport"), FailResp("decode")}

\* the (success, errors) of the envelopes of the two listing calls: success
\* with no error, or failure with one
ListFlags ==
    {[success |-> TRUE, errors |-> <<>>],
     [success |-> FALSE, errors |-> <<[code |-> 9106, message |-> "Invalid content"]>>]}

\* the envelope of a listing call
ListResp(flags, result) == JsonResp(flags.success, flags.errors, result)

PutResponses ==
    Failures \cup {JsonResp(s, e, <<>>) : s \in BOOLEAN, e \in SeqsUpTo(ErrorValues, MaxErrors)}

\* trace texts of a run: up to MaxRunLines lines, each ended by a newline
RunLines == {<<"i", "p", "=", "1">>, <<"i", "p", "=", ":">>, <<"l", "o", "c", "=", "U">>}
RunTraceTexts ==
    {Flatten([i \in 1..Len(ls) |-> Append(ls[i], LF)]) : ls \in SeqsUpTo(RunLines, MaxRunLines)}
RunTraceResponses == Failures \cup {TextResp(t) : t \in RunTraceTexts}

\* every trace text made of up to MaxTracePieces of these pieces
TracePieces == {<<"i", "p", "=">>, <<LF>>, <<":">>, <<"1">>, <<"i">>, <<"p", "=">>}
TraceTexts == {Flatten(ps) : ps \in SeqsUpTo(TracePieces, MaxTracePieces)}
TraceResponses == Failures \cup {TextResp(t) : t \in TraceTexts}

\* the configured domains
DomainChars == {"a", "b", "."}
Domains == SeqsUpTo(DomainChars, MaxDomainLen)
RunDomains == {<<"h", ".", "a", ".", "b">>}
Configs(domains) ==
    [auth_email : {<<"me@example.com">>}, auth_key : {<<"key">>}, domain : domains]

(***************************************************************************)
(* Requests.                                                               *)
(***************************************************************************)
AuthHeaders(cfg) ==
    <<(<<"X-Auth-Email", cfg.auth_email>>), (<<"X-Auth-Key", cfg.auth_key>>)>>

\* CloudflareClient::get
Get(cfg, url) ==
    [method |-> "GET", url |-> url, headers |-> AuthHeaders(cfg), body |-> None]

\* CloudflareClient::put
Put(cfg, url, json) ==
    [method |-> "PUT", url |-> url,
     headers |-> Append(AuthHeaders(cfg), <<"Content-Type", <<"application/json">>>>),
     body |-> Some(json)]

\* the ureq::get of get_ip_from_trace
TraceUrl == <<"https://cloudflare.com/cdn-cgi/trace">>
TraceGet == [method |-> "GET", url |-> TraceUrl, headers |-> <<>>, body |-> None]

\* a console line: the format string and its arguments
Line(fmt, args) == [fmt |-> fmt, args |-> args]

(***************************************************************************)
(* The pure parts of the client.                                           *)
(***************************************************************************)
\* get_zone_id without the second rev(): the two labels in reverse order
BaseDomainReversed(domain) == Join(Take(Rev(Split(domain, ".")), 2), ".")

\* get_zone_id: the name the zones are queried by
BaseDomain(domain) == Join(Rev(Take(Rev(Split(domain, ".")), 2)), ".")

ZonesUrl(base_domain) ==
    <<"https://api.cloudflare.com/client/v4/zones?name=">> \o base_domain

\* get_zone_id with unwrap_or_default() in place of ok_or_else()
FirstZoneIdOrDefault(result) == IF result = <<>> THEN Some(<<>>) ELSE Some(result[1].id)

\* get_zone_id: response.result.first().map(|zone| zone.id.clone())
FirstZoneId(result) == IF result = <<>> THEN None ELSE Some(result[1].id)

RecordsUrl(zone, domain) ==
    <<"https://api.cloudflare.com/client/v4/zones/">> \o zone
        \o <<"/dns_records?name=">> \o domain

\* get_dns_records keeping the first record of each type
RECURSIVE ScanRecordsFirstWins(_, _)
ScanRecordsFirstWins(result, acc) ==
    IF result = <<>> THEN acc
    ELSE LET record == Head(result)
             next == IF record.record_type = "A" /\ acc[1] = None
                     THEN <<Some(record.id), acc[2]>>
                     ELSE IF record.record_type = "AAAA" /\ acc[2] = None
                     THEN <<acc[1], Some(record.id)>>
                     ELSE acc
         IN  ScanRecordsFirstWins(Tail(result), next)

\* get_dns_records: the loop over response.result, from (ipv4_id, ipv6_id) = acc
RECURSIVE ScanRecords(_, _)
ScanRecords(result, acc) ==
    IF result = <<>> THEN acc
    ELSE LET record == Head(result)
             next == IF record.record_type = "A" THEN <<Some(record.id), acc[2]>>
                     ELSE IF record.record_type = "AAAA" THEN <<acc[1], Some(record.id)>>
                     ELSE acc
         IN  ScanRecords(Tail(result), next)

\* history: the content of the records the same loop takes the ids from
RECURSIVE ScanContents(_, _)
ScanContents(result, acc) ==
    IF result = <<>> THEN acc
    ELSE LET record == Head(result)
             next == IF record.record_type = "A" THEN <<Some(record.content), acc[2]>>
                     ELSE IF record.record_type = "AAAA" THEN <<acc[1], Some(record.content)>>
                     ELSE acc
         IN  ScanContents(Tail(result), next)

RecordUrl(zone, record_id) ==
    <<"https://api.cloudflare.com/client/v4/zones/">> \o zone
        \o <<"/dns_records/">> \o record_id

\* get_ip_from_trace: the value of a line that starts with "ip="
IpOfLine(line) == TrimStartMatches(line, <<"i", "p", "=">>)

\* get_ip_from_trace: the loop over response.lines(), from (ipv4, ipv6) = acc
RECURSIVE ScanLines(_, _)
ScanLines(lines, acc) ==
    IF lines = <<>> THEN acc
    ELSE LET line == Head(lines)
             ip == IpOfLine(line)
             next == IF StartsWith(line, <<"i", "p", "=">>)
                     THEN IF Contains(ip, ":") THEN <<acc[1], Some(ip)>>
                          ELSE <<Some(ip), acc[2]>>
                     ELSE acc
         IN  ScanLines(Tail(lines), next)

ParseTrace(text) == ScanLines(Lines(text), <<None, None>>)

\* main: if let (Some(ip), Some(id)) = (ip, id)
BothPresent(ip, id) == IsSome(ip) /\ IsSome(id)

(***************************************************************************)
(* The run.                                                                *)
(***************************************************************************)
InitWith(domains) ==
    /\ config \in Configs(domains)
    /\ pc = "zone"
    /\ zone_id = None
    /\ ipv4_id = None
    /\ ipv6_id = None
    /\ ipv4 = None
    /\ ipv6 = None
    /\ requests = <<>>
    /\ returned = <<>>
    /\ response = NoResp
    /\ listed = <<None, None>>
    /\ output = <<>>
    /\ error = None

Init == InitWith(RunDomains)

\* a failed call that is made again instead of ending the run
FailRetried(err, lines) ==
    /\ pc' = pc
    /\ error' = None
    /\ returned' = Append(returned, "Err")
    /\ output' = output \o lines

\* the ? operator on an Err: main returns it
Fail(err, lines) ==
    /\ pc' = "failed"
    /\ error' = Some(err)
    /\ returned' = Append(returned, "Err")
    /\ output' = output \o lines

\* main up to the binding of zone_id, with get_zone_id
GetZoneId(resp) ==
    /\ pc = "zone"
    /\ requests' = Append(requests, Get(config, ZonesUrl(BaseDomain(config.domain))))
    /\ response' = resp
    /\ LET started == <<Line("Starting DNS update for {}", <<config.domain>>),
                        Line("Discovering zone ID...", <<>>)>>
       IN  IF resp.kind # "json"
           THEN Fail(resp.kind, started) /\ UNCHANGED zone_id
           ELSE IF ~IsSome(FirstZoneId(resp.result))
           THEN Fail("Zone not found", started) /\ UNCHANGED zone_id
           ELSE /\ zone_id' = FirstZoneId(resp.result)
                /\ returned' = Append(returned, "Ok")
                /\ output' = output \o started
                        \o <<Line("Found zone ID: {}", <<Unwrap(FirstZoneId(resp.result))>>)>>
                /\ pc' = "records"
                /\ UNCHANGED error
    /\ UNCHANGED <<config, ipv4_id, ipv6_id, ipv4, ipv6, listed>>

\* main up to the binding of (ipv4_id, ipv6_id), with get_dns_records
GetDnsRecords(resp) ==
    /\ pc = "records"
    /\ requests' = Append(requests, Get(config, RecordsUrl(Unwrap(zone_id), config.domain)))
    /\ response' = resp
    /\ LET started == <<Line("Discovering DNS record IDs...", <<>>)>>
           ids == ScanRecords(resp.result, <<None, None>>)
       IN  IF resp.kind # "json"
           THEN Fail(resp.kind, started) /\ UNCHANGED <<ipv4_id, ipv6_id, listed>>
           ELSE /\ ipv4_id' = ids[1]
                /\ ipv6_id' = ids[2]
                /\ listed' = ScanContents(resp.result, <<None, None>>)
                /\ returned' = Append(returned, "Ok")
                /\ output' = output \o started
                        \o <<Line("Found record IDs - IPv4: {:?}, IPv6: {:?}", ids)>>
                /\ pc' = "trace"
                /\ UNCHANGED error
    /\ UNCHANGED <<config, zone_id, ipv4, ipv6>>

\* main's call of get_ip_from_trace
GetIpFromTrace(resp) ==
    /\ pc = "trace"
    /\ requests' = Append(requests, TraceGet)
    /\ response' = resp
    /\ IF resp.kind # "text"
       THEN Fail(resp.kind, <<>>) /\ UNCHANGED <<ipv4, ipv6>>
       ELSE /\ ipv4' = ParseTrace(resp.text)[1]
            /\ ipv6' = ParseTrace(resp.text)[2]
            /\ returned' = Append(returned, "Ok")
            /\ pc' = "v4"
            /\ UNCHANGED <<error, output>>
    /\ UNCHANGED <<config, zone_id, ipv4_id, ipv6_id, listed>>

\* update_dns returning Err when the envelope says success = false
UpdateDnsRaising(zone, record_id, domain, ip, record_type, resp, next) ==
    /\ requests' = Append(requests,
            Put(config, RecordUrl(zone, record_id), DnsUpdate(record_type, domain, ip, FALSE)))
    /\ response' = resp
    /\ IF resp.kind # "json"
       THEN Fail(resp.kind, <<>>)
       ELSE IF ~resp.success
       THEN Fail("update failed",
                 <<Line("{} update failed: {:?}", <<record_type, resp.errors>>)>>)
       ELSE /\ output' = Append(output,
                    Line("{} record updated successfully to {}", <<record_type, ip>>))
            /\ returned' = Append(returned, "Ok")
            /\ pc' = next
            /\ UNCHANGED error

\* update_dns printing a transport or decode failure and returning Ok
UpdateDnsSwallowing(zone, record_id, domain, ip, record_type, resp, next) ==
    /\ requests' = Append(requests,
            Put(config, RecordUrl(zone, record_id), DnsUpdate(record_type, domain, ip, FALSE)))
    /\ response' = resp
    /\ output' = Append(output,
            IF resp.kind = "json" /\ resp.success
            THEN Line("{} record updated successfully to {}", <<record_type, ip>>)
            ELSE Line("{} update failed: {:?}", <<record_type, resp.errors>>))
    /\ returned' = Append(returned, "Ok")
    /\ pc' = next
    /\ UNCHANGED error

\* update_dns; main goes on at `next` when it returns Ok
UpdateDns(zone, record_id, domain, ip, record_type, resp, next) ==
    /\ requests' = Append(requests,
            Put(config, RecordUrl(zone, record_id), DnsUpdate(record_type, domain, ip, FALSE)))
    /\ response' = resp
    /\ IF resp.kind # "json"
       THEN Fail(resp.kind, <<>>)
       ELSE /\ output' = Append(output,
                    IF resp.success
                    THEN Line("{} record updated successfully to {}", <<record_type, ip>>)
                    ELSE Line("{} update failed: {:?}", <<record_type, resp.errors>>))
            /\ returned' = Append(returned, "Ok")
            /\ pc' = next
            /\ UNCHANGED error

\* the IPv4 block entered only when the listed record holds another address
Ipv4DueIfChanged == BothPresent(ipv4, ipv4_id) /\ listed[1] # ipv4

\* main: the condition of the IPv4 block
Ipv4Due == BothPresent(ipv4, ipv4_id)

\* main: the condition of the IPv6 block
Ipv6Due == BothPresent(ipv6, ipv6_id)

\* main: the IPv4 block, when it calls update_dns
UpdateIpv4(resp) ==
    /\ pc = "v4"
    /\ Ipv4Due
    /\ UpdateDns(Unwrap(zone_id), Unwrap(ipv4_id), config.domain, Unwrap(ipv4), "A", resp, "v6")
    /\ UNCHANGED <<config, zone_id, ipv4_id, ipv6_id, ipv4, ipv6, listed>>

\* the IPv4 block returning Err when address or record is missing
SkipIpv4Fatal ==
    /\ pc = "v4"
    /\ ~Ipv4Due
    /\ pc' = "failed"
    /\ error' = Some("IPv4 address or record not available")
    /\ UNCHANGED <<config, zone_id, ipv4_id, ipv6_id, ipv4, ipv6, requests, returned,
                   response, listed, output>>

\* main: the IPv4 block, when it skips
SkipIpv4 ==
    /\ pc = "v4"
    /\ ~Ipv4Due
    /\ output' = Append(output,
            Line("Skipping IPv4 update - address or record not available", <<>>))
    /\ pc' = "v6"
    /\ UNCHANGED <<config, zone_id, ipv4_id, ipv6_id, ipv4, ipv6, requests, returned,
                   response, listed, error>>

\* main: the IPv6 block, when it calls update_dns
UpdateIpv6(resp) ==
    /\ pc = "v6"
    /\ Ipv6Due
    /\ UpdateDns(Unwrap(zone_id), Unwrap(ipv6_id), config.domain, Unwrap(ipv6), "AAAA", resp,
                 "done")
    /\ UNCHANGED <<config, zone_id, ipv4_id, ipv6_id, ipv4, ipv6, listed>>

\* main: the IPv6 block, when it skips
SkipIpv6 ==
    /\ pc = "v6"
    /\ ~Ipv6Due
    /\ output' = Append(output,
            Line("Skipping IPv6 update - address or record not available", <<>>))
    /\ pc' = "done"
    /\ UNCHANGED <<config, zone_id, ipv4_id, ipv6_id, ipv4, ipv6, requests, returned,
                   response, listed, error>>

\* the steps of main, each with every answer the network can give: a failure,
\* or an envelope whose result is a sequence of up to the bound of items
ZoneStep ==
    /\ pc = "zone"
    /\ \/ \E resp \in Failures : GetZoneId(resp)
       \/ \E flags \in ListFlags, k \in 0..MaxZones :
             \E result \in [1..k -> Zones] : GetZoneId(ListResp(flags, result))
RecordsStep ==
    /\ pc = "records"
    /\ \/ \E resp \in Failures : GetDnsRecords(resp)
       \/ \E flags \in ListFlags, k \in 0..MaxRecords :
             \E result \in [1..k -> DnsRecords(config.domain)] :
                 GetDnsRecords(ListResp(flags, result))
TraceStep == pc = "trace" /\ \E resp \in RunTraceResponses : GetIpFromTrace(resp)
Ipv4Update == pc = "v4" /\ \E resp \in PutResponses : UpdateIpv4(resp)
Ipv6Update == pc = "v6" /\ \E resp \in PutResponses : UpdateIpv6(resp)

Next ==
    ZoneStep \/ RecordsStep \/ TraceStep \/ Ipv4Update \/ SkipIpv4 \/ Ipv6Update \/ SkipIpv6

Spec == Init /\ [][Next]_vars

(***************************************************************************)
(* get_zone_id alone, over every domain of up to MaxDomainLen characters.  *)
(***************************************************************************)
InitZone == InitWith(Domains)

SpecZone == InitZone /\ [][ZoneStep]_vars

(***************************************************************************)
(* get_dns_records over every listing of up to MaxListLen records, after   *)
(* a zone lookup that found one zone.                                      *)
(***************************************************************************)
ZoneFound ==
    pc = "zone" /\ \E zone \in Zones : GetZoneId(JsonResp(TRUE, <<>>, <<zone>>))
RecordsListed ==
    /\ pc = "records"
    /\ \/ \E resp \in Failures : GetDnsRecords(resp)
       \/ \E flags \in ListFlags, k \in 0..MaxListLen :
             \E result \in [1..k -> DnsRecords(config.domain)] :
                 GetDnsRecords(ListResp(flags, result))

NextRecords == ZoneFound \/ RecordsListed

SpecRecords == Init /\ [][NextRecords]_vars

(***************************************************************************)
(* get_ip_from_trace over every trace text of up to MaxTracePieces pieces, *)
(* after a zone lookup and a listing that succeeded.                       *)
(***************************************************************************)
RecordsFound ==
    pc = "records" /\ \E a, b \in DnsRecords(config.domain) :
        /\ a.id = <<"r1">> /\ a.record_type = "A" /\ a.content = <<"1">>
        /\ b.id = <<"r2">> /\ b.record_type = "AAAA" /\ b.content = <<":">>
        /\ GetDnsRecords(JsonResp(TRUE, <<>>, <<a, b>>))
TraceRead == pc = "trace" /\ \E resp \in TraceResponses : GetIpFromTrace(resp)

NextTrace == ZoneFound \/ RecordsFound \/ TraceRead

SpecTrace == Init /\ [][NextTrace]_vars

(***************************************************************************)
(* Vocabulary of the properties.                                           *)
(***************************************************************************)
IsPut(req, record_type) ==
    req.method = "PUT" /\ IsSome(req.body) /\ Unwrap(req.body).record_type = record_type

PutIssued(record_type) == \E i \in 1..Len(requests) : IsPut(requests[i], record_type)

LastRequestIsPut(record_type) ==
    Len(requests) > 0 /\ IsPut(requests[Len(requests)], record_type)

Printed(fmt) == \E i \in 1..Len(output) : output[i].fmt = fmt

SkipIpv4Notice == "Skipping IPv4 update - address or record not available"
SkipIpv6Notice == "Skipping IPv6 update - address or record not available"
UpdateFailedFmt == "{} update failed: {:?}"

\* the trace GET returned Ok and the IPv4 block has been executed
Ipv4Processed ==
    \/ pc \in {"v6", "done"}
    \/ pc = "failed" /\ (LastRequestIsPut("A") \/ LastRequestIsPut("AAAA"))

\* the IPv6 block has been executed
Ipv6Processed == pc = "done" \/ (pc = "failed" /\ LastRequestIsPut("AAAA"))

\* C1: an update is sent for a family exactly when the run came to that
\* family's block with both a current address and a record id of the family;
\* when either is missing nothing is sent for it, the skip notice is printed,
\* and the run does not fail for it (a run fails only by a call that returned
\* Err, after an IPv4 skip only by the AAAA PUT).
C1_UpdateIffBothPresent ==
    /\ PutIssued("A") <=> (Ipv4Processed /\ IsSome(ipv4) /\ IsSome(ipv4_id))
    /\ PutIssued("AAAA") <=> (Ipv6Processed /\ IsSome(ipv6) /\ IsSome(ipv6_id))
    /\ Printed(SkipIpv4Notice) <=> (Ipv4Processed /\ ~(IsSome(ipv4) /\ IsSome(ipv4_id)))
    /\ Printed(SkipIpv6Notice) <=> (Ipv6Processed /\ ~(IsSome(ipv6) /\ IsSome(ipv6_id)))
    /\ (Printed(SkipIpv4Notice) /\ pc = "failed") => LastRequestIsPut("AAAA")
    /\ pc = "failed" => (Len(returned) > 0 /\ returned[Len(returned)] = "Err")
    /\ Printed(SkipIpv6Notice) => (pc = "done" /\ error = None)

C1_Witness ==
    /\ pc = "done"
    /\ IsSome(ipv4) /\ ~IsSome(ipv4_id) /\ ~PutIssued("A") /\ Printed(SkipIpv4Notice)
    /\ IsSome(ipv6) /\ IsSome(ipv6_id) /\ PutIssued("AAAA")

\* C2: a zone listing that decodes with an empty result makes get_zone_id fail
\* with "Zone not found"; the run ends in failure having issued the zone GET
\* and nothing else, and no further step can be taken.
C2_EmptyZoneListIsFatal ==
    (Len(requests) = 1 /\ response.kind = "json" /\ response.result = <<>>)
        => /\ pc = "failed"
           /\ error = Some("Zone not found")
           /\ returned = <<"Err">>
           /\ requests[1].method = "GET"
           /\ ~ENABLED Next

C2_Witness ==
    /\ Len(requests) = 1 /\ response.kind = "json" /\ response.result = <<>>
    /\ response.success
    /\ pc = "failed"

\* the A update answered success = false has been reported
AFailureReported ==
    \E i \in 1..Len(output) :
        output[i].fmt = UpdateFailedFmt /\ output[i].args[1] = "A"

\* C3: when the A PUT is answered by an envelope with success = false,
\* update_dns returns Ok after printing the failure with the envelope's errors
\* unchanged, and the IPv6 block is then executed as after a successful update:
\* the AAAA PUT is sent when address and record id are both present, otherwise
\* the skip notice is printed.
C3_ProviderFailureNotFatal ==
    /\ (LastRequestIsPut("A") /\ response.kind = "json" /\ ~response.success)
        => /\ error = None
           /\ returned[Len(returned)] = "Ok"
           /\ \E i \in 1..Len(output) :
                 output[i] = Line(UpdateFailedFmt, <<"A", response.errors>>)
           /\ pc \in {"v6", "done"}
           /\ pc = "v6" =>
                IF IsSome(ipv6) /\ IsSome(ipv6_id)
                THEN ENABLED Ipv6Update /\ ~ENABLED SkipIpv6
                ELSE ENABLED SkipIpv6 /\ ~ENABLED Ipv6Update
           /\ pc = "done" => Printed(SkipIpv6Notice)
    /\ AFailureReported
        => /\ Ipv4Processed
           /\ pc = "failed" => LastRequestIsPut("AAAA")
           /\ Ipv6Processed =>
                /\ PutIssued("AAAA") <=> (IsSome(ipv6) /\ IsSome(ipv6_id))
                /\ Printed(SkipIpv6Notice) <=> ~(IsSome(ipv6) /\ IsSome(ipv6_id))

C3_Witness ==
    /\ pc = "done"
    /\ AFailureReported
    /\ PutIssued("AAAA")
    /\ \E i \in 1..Len(output) :
          output[i].fmt = UpdateFailedFmt /\ Len(output[i].args[2]) = 1

\* C4: a transport or decode failure of any request ends the run at once in
\* failure: the error is returned, the failed request was sent once, nothing
\* can follow it, and after a failed A PUT the IPv6 block is never executed
\* (no AAAA PUT, no skip notice).
C4_TransportOrDecodeFailureIsFatal ==
    response.kind \in {"transport", "decode"}
        => /\ pc = "failed"
           /\ error = Some(response.kind)
           /\ returned[Len(returned)] = "Err"
           /\ Cardinality({i \in 1..Len(requests) : requests[i] = requests[Len(requests)]}) = 1
           /\ ~ENABLED Next
           /\ LastRequestIsPut("A") => (~PutIssued("AAAA") /\ ~Printed(SkipIpv6Notice))

C4_Witness ==
    /\ response.kind = "decode"
    /\ LastRequestIsPut("A")
    /\ IsSome(ipv6) /\ IsSome(ipv6_id)
    /\ pc = "failed"

\* C5 (as stated): an update is sent for a family only when the content of
\* the existing record differs from the current address of that family.
C5_UpdateOnlyOnMismatch ==
    /\ PutIssued("A") => listed[1] # ipv4
    /\ PutIssued("AAAA") => listed[2] # ipv6

\* C5 (amended): the content of the existing record plays no part: once a
\* family's block has been executed with a current address and a record id
\* both present, a PUT carrying the current address has been sent for it,
\* also when the listed record already holds that very address.
C5_UpdateRegardlessOfContent ==
    /\ (Ipv4Processed /\ IsSome(ipv4) /\ IsSome(ipv4_id))
        => \E i \in 1..Len(requests) :
              IsPut(requests[i], "A") /\ Unwrap(requests[i].body).content = Unwrap(ipv4)
    /\ (Ipv6Processed /\ IsSome(ipv6) /\ IsSome(ipv6_id))
        => \E i \in 1..Len(requests) :
              IsPut(requests[i], "AAAA") /\ Unwrap(requests[i].body).content = Unwrap(ipv6)

C5_Witness ==
    /\ pc = "done"
    /\ IsSome(ipv4) /\ listed[1] = ipv4 /\ PutIssued("A")
    /\ IsSome(ipv6) /\ IsSome(listed[2]) /\ listed[2] # ipv6 /\ PutIssued("AAAA")

\* the id of the last record of a type in a listing, by position
LastIdOfType(result, record_type) ==
    LET at == {i \in 1..Len(result) : result[i].record_type = record_type}
    IN  IF at = {} THEN None
        ELSE Some(result[CHOOSE i \in at : \A j \in at : j <= i].id)

IsAddressRecord(record) == record.record_type \in {"A", "AAAA"}

\* C6: for every listing, get_dns_records returns as ipv4 id the id of the
\* last record of type "A" and as ipv6 id the id of the last record of type
\* "AAAA", each absent when there is no such record; the records of other
\* types change nothing, and the empty listing gives (absent, absent), not
\* an error.
C6_LastRecordOfEachTypeWins ==
    (Len(requests) = 2 /\ response.kind = "json")
        => /\ pc = "trace"
           /\ error = None
           /\ returned[2] = "Ok"
           /\ ipv4_id = LastIdOfType(response.result, "A")
           /\ ipv6_id = LastIdOfType(response.result, "AAAA")
           /\ <<ipv4_id, ipv6_id>> =
                <<LastIdOfType(SelectSeq(response.result, IsAddressRecord), "A"),
                  LastIdOfType(SelectSeq(response.result, IsAddressRecord), "AAAA")>>
           /\ response.result = <<>> => (ipv4_id = None /\ ipv6_id = None)

C6_Witness ==
    /\ pc = "trace"
    /\ Len(response.result) = 3
    /\ response.result[1].record_type = "A" /\ response.result[1].id = <<"r1">>
    /\ response.result[2].record_type = "A" /\ response.result[2].id = <<"r2">>
    /\ response.result[3].record_type = "CNAME"
    /\ ipv4_id = Some(<<"r2">>)
    /\ ipv6_id = None

\* C7: every PUT of a run is of type "A" or "AAAA"; the A update goes to the
\* record endpoint of the resolved zone id and the kept A-record id and
\* carries {type "A", name the configured domain, content the current IPv4
\* address, proxied false}; the AAAA update likewise with the kept AAAA-record
\* id and the current IPv6 address; proxied is never true.
C7_PutTargetsAndPayload ==
    \A i \in 1..Len(requests) :
        requests[i].method = "PUT" =>
            LET update == Unwrap(requests[i].body)
                endpoint(record_id) ==
                    <<"https://api.cloudflare.com/client/v4/zones/">> \o Unwrap(zone_id)
                        \o <<"/dns_records/">> \o Unwrap(record_id)
            IN  /\ update.record_type \in {"A", "AAAA"}
                /\ update.name = config.domain
                /\ update.proxied = FALSE
                /\ update.record_type = "A" =>
                      /\ IsSome(ipv4) /\ IsSome(ipv4_id)
                      /\ update.content = Unwrap(ipv4)
                      /\ requests[i].url = endpoint(ipv4_id)
                /\ update.record_type = "AAAA" =>
                      /\ IsSome(ipv6) /\ IsSome(ipv6_id)
                      /\ update.content = Unwrap(ipv6)
                      /\ requests[i].url = endpoint(ipv6_id)

C7_Witness ==
    /\ pc = "done"
    /\ PutIssued("A") /\ PutIssued("AAAA")
    /\ ipv4_id # ipv6_id
    /\ zone_id = Some(<<"z2">>)

\* the positions of the dots of a domain, and the domain's part after the
\* last but one of them
Dots(domain) == {i \in 1..Len(domain) : domain[i] = "."}
LastTwoLabels(domain) ==
    LET before == {i \in Dots(domain) : \E j \in Dots(domain) : i < j}
        from == IF before = {} THEN 1
                ELSE (CHOOSE i \in before : \A j \in before : j <= i) + 1
    IN  SubSeq(domain, from, Len(domain))

\* C8: for every domain of at least two dot-separated labels, get_zone_id
\* queries the zones by the last two labels of the domain, in their order,
\* joined by one dot, and returns the id of the first zone of the result,
\* however many zones there are.
C8_ApexOfLastTwoLabelsFirstZone ==
    (Len(requests) >= 1 /\ Cardinality(Dots(config.domain)) >= 1)
        => /\ requests[1].method = "GET"
           /\ requests[1].url =
                <<"https://api.cloudflare.com/client/v4/zones?name=">>
                    \o LastTwoLabels(config.domain)
           /\ (response.kind = "json" /\ response.result # <<>>)
                => (pc = "records" /\ zone_id = Some(response.result[1].id))

C8_Witness ==
    /\ pc = "records"
    /\ config.domain = <<"a", ".", "b", ".", "a">>
    /\ Len(response.result) = 2
    /\ response.result[1].id # response.result[2].id
    /\ zone_id = Some(response.result[1].id)

\* the lines of the trace text whose key is ip
IpLines(text) ==
    {i \in 1..Len(Lines(text)) : StartsWith(Lines(text)[i], <<"i", "p", "=">>)}
AfterIpKey(line) == SubSeq(line, 4, Len(line))

\* C9 (as stated): the value returned by get_ip_from_trace is the text after
\* "ip=" of a line whose key is ip, as ipv6 when it contains a colon and as
\* ipv4 otherwise; with no such line the result is (absent, absent) and the
\* call succeeds.
C9_ValueIsTextAfterKey ==
    (Len(requests) = 3 /\ response.kind = "text")
        => LET lines == Lines(response.text)
               values == {AfterIpKey(lines[i]) : i \in IpLines(response.text)}
           IN  /\ pc = "v4" /\ error = None
               /\ IsSome(ipv4) => (Unwrap(ipv4) \in values /\ ~Contains(Unwrap(ipv4), ":"))
               /\ IsSome(ipv6) => (Unwrap(ipv6) \in values /\ Contains(Unwrap(ipv6), ":"))
               /\ values = {} => (ipv4 = None /\ ipv6 = None)
               /\ values # {} => (IsSome(ipv4) \/ IsSome(ipv6))

\* the place of a request in the pipeline
RequestRank(req) ==
    IF req.method = "GET"
    THEN IF req.url = TraceUrl THEN 3
         ELSE IF req.url[1] = "https://api.cloudflare.com/client/v4/zones?name=" THEN 1
         ELSE 2
    ELSE IF Unwrap(req.body).record_type = "A" THEN 4 ELSE 5

PcRank(at) ==
    CASE at = "zone" -> 1 [] at = "records" -> 2 [] at = "trace" -> 3
      [] at = "v4" -> 4 [] at = "v6" -> 5 [] OTHER -> 6

C10_Pipeline ==
    /\ Len(requests) <= 5
    /\ Len(returned) = Len(requests)
    /\ \A i, j \in 1..Len(requests) : i < j => RequestRank(requests[i]) < RequestRank(requests[j])
    /\ \A i \in 1..Len(requests) : i <= 3 => RequestRank(requests[i]) = i
    /\ \A i \in 1..Len(requests) : i < Len(requests) => returned[i] = "Ok"
    /\ Len(requests) >= 2 =>
          requests[2].url = <<"https://api.cloudflare.com/client/v4/zones/">>
                \o Unwrap(zone_id) \o <<"/dns_records?name=">> \o config.domain
    /\ pc \in {"done", "failed"} => ~ENABLED Next

\* C10: the requests of a run are, in this order and each at most once, the
\* zone GET, the record GET, the trace GET, the A PUT and the AAAA PUT, the
\* first three never left out before a later one; a request is sent only
\* after every earlier call has returned Ok; the record GET names the zone
\* id that get_zone_id returned; every step moves main forward, so that the
\* run ends after at most five requests.
C10_LinearPipeline == []C10_Pipeline /\ [][PcRank(pc') > PcRank(pc)]_vars

C10_Witness == pc = "done" /\ Len(requests) = 5 /\ error = None

====
